---- MODULE Spec2Model ----
(***************************************************************************)
(* Model of the JESC sentence bot: the Japanese tokenizer                  *)
(* (src/src/tokenizer.py), the corpus loader (src/src/loader.py), the      *)
(* index rebuild script (src/scripts/rebuild_word_index.py), the database  *)
(* layer (src/src/database.py) and the search command (src/src/bot.py).    *)
(*                                                                         *)
(* A text is a sequence of characters, each character a one-word string.   *)
(* "ZA" is a full-width letter, "A" its half-width form; "hK" is a         *)
(* half-width katakana, "K" its full-width form.  "S","b","r","t" stand    *)
(* for the kana/kanji of the verb 食べる (S b r), its stem 食べ (S b) and    *)
(* the past auxiliary た (t).  In raw CSV fields " ", "T" (tab) and "N"    *)
(* (newline) are white space, "c" is an ordinary character and "L" is a    *)
(* run of MaxTextLen ordinary characters.                                  *)
(***************************************************************************)
EXTENDS Integers, Sequences, FiniteSets, Bags, TLC

VARIABLES
    sentences,   \* table sentences: set of rows [id, japanese, english]
    word_index,  \* table word_index: bag of rows <<word, sentence_id>>
    nextId,      \* next value of the sentences.id autoincrement sequence
    run,         \* record of the last loader / rebuild run
    req,         \* record of the last /sentence request
    ret,         \* record of the last call of a query primitive
    bw,          \* record of a build_word_index call
    rd,          \* record of a read_jesc_file call
    tk           \* record of the tokenizer calls made on one text

vars == <<sentences, word_index, nextId, run, req, ret, bw, rd, tk>>

----------------------------------------------------------------------------
(* Bounds of the model *)

\* longest sentence list handed to one loader run / one build_word_index call
MaxInput == 2
\* largest number of Sentence rows the store holds
MaxSentences == 2
\* largest value of the id sequence
MaxId == 3
\* largest number of word_index rows the store holds
MaxIndexRows == 3
\* largest batch_size passed to a bulk insert
MaxBatchSize == 2
\* largest start_id handed to build_word_index on its own
MaxStartId == 3
\* largest limit a user passes to /sentence
MaxLimit == 3
\* most records of a CSV file
MaxRecords == 2
\* longest text handed to the tokenizer on its own
MaxTextChars == 3

----------------------------------------------------------------------------
(* Sequence helpers *)

Range(s) == {s[i] : i \in DOMAIN s}

Min(a, b) == IF a < b THEN a ELSE b

Max(a, b) == IF a > b THEN a ELSE b

SeqsUpTo(S, n) == UNION {[1..k -> S] : k \in 0..n}

\* s[i:j] of Python for 0-based i, exclusive j
Slice(s, i, j) == SubSeq(s, i + 1, Min(j, Len(s)))

IsPrefix(p, s) == Len(p) <= Len(s) /\ SubSeq(s, 1, Len(p)) = p

\* all orders in which a container of n elements can be iterated
Perms(n) == {p \in [1..n -> 1..n] : \A i, j \in 1..n : i # j => p[i] # p[j]}

----------------------------------------------------------------------------
(* tokenizer.py *)

\* jaconv.z2h(text, kana=False, ascii=True, digit=True)
z2h(ch) == IF ch = "ZA" THEN "A" ELSE ch

\* jaconv.h2z(text, kana=True, ascii=False, digit=False)
h2z(ch) == IF ch = "hK" THEN "K" ELSE ch

normalize(text) == [i \in DOMAIN text |-> h2z(z2h(text[i]))]

\* The dictionary of the fugashi tagger: surface form and lemma feature.
\* <<"*">> is the placeholder lemma, <<>> a missing (None) lemma.
Lexicon ==
    { [surface |-> <<"S", "b", "r">>, lemma |-> <<"S", "b", "r">>],
      [surface |-> <<"S", "b">>,      lemma |-> <<"S", "b", "r">>],
      [surface |-> <<"t">>,           lemma |-> <<"t">>],
      [surface |-> <<"A">>,           lemma |-> <<"*">>],
      [surface |-> <<"K">>,           lemma |-> <<>>] }

\* the morpheme starting at position i: the longest dictionary entry that
\* matches there, else the single character as an unknown word
MorphemeAt(text, i) ==
    LET rest == SubSeq(text, i, Len(text))
        hits == {m \in Lexicon : IsPrefix(m.surface, rest)}
    IN  IF hits = {}
        THEN [surface |-> <<text[i]>>, lemma |-> <<"*">>]
        ELSE CHOOSE m \in hits : \A o \in hits : Len(o.surface) <= Len(m.surface)

RECURSIVE TagFrom(_, _)
TagFrom(text, i) ==
    IF i > Len(text) THEN <<>>
    ELSE LET m == MorphemeAt(text, i)
         IN  <<m>> \o TagFrom(text, i + Len(m.surface))

\* self.tagger(text): the morphemes of text, in order
tagger(text) == TagFrom(text, 1)

\* list.append in place of set.add: keeps repeated words
list_add(words, w) == Append(words, w)

\* set.add: a Python set, kept as a sequence without repetitions
set_add(words, w) == IF w \in Range(words) THEN words ELSE Append(words, w)

\* `if lemma and lemma != '*'`
lemma_resolved(lemma) == lemma # <<>> /\ lemma # <<"*">>

RECURSIVE tokenize_loop(_, _)
tokenize_loop(ms, i) ==
    IF i > Len(ms) THEN <<>> ELSE <<ms[i].surface>> \o tokenize_loop(ms, i + 1)

\* JapaneseTokenizer.tokenize; raises = the tagger raises in this call
tokenize(text, raises) ==
    IF raises THEN <<>> ELSE tokenize_loop(tagger(normalize(text)), 1)

RECURSIVE get_lemmas_loop(_, _, _)
get_lemmas_loop(ms, i, lemmas) ==
    IF i > Len(ms) THEN lemmas
    ELSE get_lemmas_loop(ms, i + 1,
            IF lemma_resolved(ms[i].lemma)
            THEN set_add(lemmas, ms[i].lemma)
            ELSE set_add(lemmas, ms[i].surface))

\* JapaneseTokenizer.get_lemmas
get_lemmas(text, raises) ==
    IF raises THEN <<>> ELSE get_lemmas_loop(tagger(normalize(text)), 1, <<>>)

\* a loop that, like get_lemmas, keeps the surface only of a morpheme without
\* a resolved lemma
get_lemmas_only_loop(ms, i, words) == get_lemmas_loop(ms, i, words)

RECURSIVE get_lemmas_with_surface_loop(_, _, _)
get_lemmas_with_surface_loop(ms, i, words) ==
    IF i > Len(ms) THEN words
    ELSE LET w1 == set_add(words, ms[i].surface)
         IN  get_lemmas_with_surface_loop(ms, i + 1,
                IF lemma_resolved(ms[i].lemma) THEN set_add(w1, ms[i].lemma) ELSE w1)

\* a handler that returns the words gathered so far (`return words`)
get_lemmas_with_surface_partial(text, raises) ==
    IF raises
    THEN get_lemmas_with_surface_loop(Slice(tagger(normalize(text)), 0, 1), 1, <<>>)
    ELSE get_lemmas_with_surface_loop(tagger(normalize(text)), 1, <<>>)

\* JapaneseTokenizer.get_lemmas_with_surface
get_lemmas_with_surface(text, raises) ==
    IF raises THEN <<>>
    ELSE get_lemmas_with_surface_loop(tagger(normalize(text)), 1, <<>>)

\* the empty dict {}
EmptyDict == <<>>

\* JapaneseTokenizer.analyze_word, which does not normalize; of the features
\* of the first morpheme the surface and the lemma are kept ('*' becomes None)
analyze_word(word, raises) ==
    IF raises THEN EmptyDict
    ELSE LET result == tagger(word)
         IN  IF result # <<>>
             THEN [surface |-> result[1].surface,
                   lemma |-> IF result[1].lemma # <<"*">> THEN result[1].lemma ELSE <<>>]
             ELSE EmptyDict

----------------------------------------------------------------------------
(* loader.py: read_jesc_file *)

\* `len(text) > 300`
MaxTextLen == 300

\* the number of characters a model character stands for
CharLen(ch) == IF ch = "L" THEN MaxTextLen ELSE 1

RECURSIVE TextLen(_)
TextLen(text) ==
    IF text = <<>> THEN 0 ELSE CharLen(Head(text)) + TextLen(Tail(text))

WhiteSpace == {" ", "T", "N"}

RECURSIVE lstrip(_)
lstrip(text) ==
    IF text # <<>> /\ Head(text) \in WhiteSpace THEN lstrip(Tail(text)) ELSE text

RECURSIVE rstrip(_)
rstrip(text) ==
    IF text # <<>> /\ text[Len(text)] \in WhiteSpace
    THEN rstrip(SubSeq(text, 1, Len(text) - 1)) ELSE text

\* str.strip()
strip(text) == rstrip(lstrip(text))

\* `'\n' in text or '\t' in text`
has_newline_or_tab(text) == \E i \in DOMAIN text : text[i] \in {"N", "T"}

\* a length test that also turns down a text of exactly 300 characters
too_long_from_300(text) == TextLen(text) >= MaxTextLen

\* `len(text) > 300`
too_long(text) == TextLen(text) > MaxTextLen

\* the loop of read_jesc_file from line line_num on; limit 0 is no limit
RECURSIVE read_loop(_, _, _, _)
read_loop(rows, limit, line_num, sents) ==
    IF line_num > Len(rows) THEN sents
    ELSE IF limit # 0 /\ line_num > limit THEN sents
    ELSE LET row == rows[line_num]
             en_text == strip(row[2])
             ja_text == strip(row[3])
         IN  IF Len(row) < 3
             THEN read_loop(rows, limit, line_num + 1, sents)
             ELSE IF ja_text = <<>> \/ en_text = <<>>
             THEN read_loop(rows, limit, line_num + 1, sents)
             ELSE IF has_newline_or_tab(ja_text) \/ has_newline_or_tab(en_text)
             THEN read_loop(rows, limit, line_num + 1, sents)
             ELSE IF too_long(ja_text) \/ too_long(en_text)
             THEN read_loop(rows, limit, line_num + 1, sents)
             ELSE read_loop(rows, limit, line_num + 1,
                            Append(sents, <<ja_text, en_text>>))

\* read_jesc_file(csv_path, limit).  missing: the file cannot be opened.
read_jesc_file(rows, limit, missing) ==
    IF missing THEN [phase |-> "raised", rows |-> rows, limit |-> limit, out |-> <<>>]
    ELSE [phase |-> "returned", rows |-> rows, limit |-> limit,
          out |-> read_loop(rows, limit, 1, <<>>)]

----------------------------------------------------------------------------
(* loader.py: build_word_index *)

\* `for word in words: word_index.append((word, idx))`, the set iterated in
\* the order p
index_entries(words, p, idx) == [m \in 1..Len(words) |-> <<words[p[m]], idx>>]

\* enumerate without the start offset applied to the first sentence
enumerate_id_off(start_id, k) == start_id + k

\* enumerate(sentences, start=start_id): the id paired with the k-th sentence
enumerate_id(start_id, k) == start_id + k - 1

\* The tagger may raise on any sentence (raises[k]) and every word set may be
\* iterated in any order (orders[k]).
RECURSIVE build_word_index_from(_, _, _, _, _)
build_word_index_from(sents, start_id, raises, orders, k) ==
    IF k > Len(sents) THEN <<>>
    ELSE index_entries(get_lemmas_with_surface(sents[k][1], raises[k]),
                       orders[k], enumerate_id(start_id, k))
         \o build_word_index_from(sents, start_id, raises, orders, k + 1)

build_word_index(sents, start_id, raises, orders) ==
    build_word_index_from(sents, start_id, raises, orders, 1)

\* the iteration orders possible for the word sets of a sentence list
IterOrders(sents, raises) ==
    LET n(k) == Len(get_lemmas_with_surface(sents[k][1], raises[k]))
        most == CHOOSE m \in 0..100 :
                    /\ \A k \in 1..Len(sents) : n(k) <= m
                    /\ m = 0 \/ \E k \in 1..Len(sents) : n(k) = m
    IN  {o \in [1..Len(sents) -> UNION {Perms(i) : i \in 0..most}] :
            \A k \in 1..Len(sents) : o[k] \in Perms(n(k))}

----------------------------------------------------------------------------
(* The data the model runs on *)

Taberu == <<"S", "b", "r">>

Tabe == <<"S", "b">>

Tabeta == <<"S", "b", "t">>

WideA == <<"ZA">>

\* sentence pairs (japanese, english) as read_jesc_file returns them
Corpus == {<<Taberu, "eat">>, <<Tabe, "eating">>}

\* the pairs of the stores that are searched
QueryCorpus == Corpus \cup {<<WideA, "a">>}

\* build_word_index takes any list of pairs, also one with no Japanese text
BuildCorpus == QueryCorpus \cup {<<<<>>, "none">>}

\* query words a caller may pass
QueryWords == {Taberu, Tabeta, <<"S">>, <<"ZA">>, <<"x">>}

----------------------------------------------------------------------------
(* Initial values *)

NoRun == [kind |-> "none"]

NoReq == [outcome |-> "none"]

NoRet == [op |-> "none"]

NoRead == [phase |-> "none"]

NoBuild == [phase |-> "none"]

NoTok == [phase |-> "none"]

\* the store after setup_db.py: empty tables, the id sequence at 1
EmptyStore == [sentences |-> {}, word_index |-> EmptyBag, nextId |-> 1]

\* no call is under way: the caller has taken the last call's result
Idle == run = NoRun /\ req = NoReq /\ ret = NoRet

InitStore ==
    /\ sentences = EmptyStore.sentences
    /\ word_index = EmptyStore.word_index
    /\ nextId = EmptyStore.nextId
    /\ run = NoRun
    /\ req = NoReq
    /\ ret = NoRet

----------------------------------------------------------------------------
(* database.py: bulk inserts *)

\* the number of batches `range(0, n, batch_size)` walks through
NumBatches(n, batch_size) == (n + batch_size - 1) \div batch_size

\* list[i:i + batch_size] for the b-th batch (b = 1, 2, ...)
BatchOf(list, batch_size, b) ==
    Slice(list, (b - 1) * batch_size, b * batch_size)

\* Sentence(japanese=jp, english=en) rows saved with ids drawn from the
\* sequence in list order
SentenceRows(batch, first) ==
    {[id |-> first + m - 1, japanese |-> batch[m][1], english |-> batch[m][2]] :
        m \in 1..Len(batch)}

\* a failed batch whose first rows stay in the table (no rollback)
failed_batch_kept(rows, first, batch, consumed) ==
    rows \cup SentenceRows(SubSeq(batch, 1, consumed), first)

\* session.rollback(): nothing of the failed batch stays in the table
failed_batch(rows, first, batch, consumed) == rows

\* Database.bulk_insert_sentences.  fail = the number of the batch whose
\* save/commit raises (0: none); consumed = how many sequence values that
\* batch had drawn before it failed (a sequence is not rolled back).
RECURSIVE bulk_insert_sentences_from(_, _, _, _, _, _, _)
bulk_insert_sentences_from(rows, seq, list, batch_size, fail, consumed, b) ==
    IF b > NumBatches(Len(list), batch_size)
    THEN [sentences |-> rows, nextId |-> seq, raised |-> FALSE]
    ELSE LET batch == BatchOf(list, batch_size, b)
         IN  IF b = fail
             THEN [sentences |-> failed_batch(rows, seq, batch, consumed),
                   nextId |-> seq + consumed, raised |-> TRUE]
             ELSE bulk_insert_sentences_from(rows \cup SentenceRows(batch, seq),
                     seq + Len(batch), list, batch_size, fail, consumed, b + 1)

bulk_insert_sentences(rows, seq, list, batch_size, fail, consumed) ==
    bulk_insert_sentences_from(rows, seq, list, batch_size, fail, consumed, 1)

\* the bag of the rows WordIndex(word=word, sentence_id=sid) of a batch
IndexRows(batch) ==
    [e \in Range(batch) |-> Cardinality({m \in DOMAIN batch : batch[m] = e})]

\* Database.bulk_insert_word_index.  fail = the number of the batch whose
\* save/commit raises (0: none).
RECURSIVE bulk_insert_word_index_from(_, _, _, _, _)
bulk_insert_word_index_from(index, entries, batch_size, fail, b) ==
    IF b > NumBatches(Len(entries), batch_size)
    THEN [word_index |-> index, raised |-> FALSE]
    ELSE IF b = fail
         THEN [word_index |-> index, raised |-> TRUE]
         ELSE bulk_insert_word_index_from(
                 index (+) IndexRows(BatchOf(entries, batch_size, b)),
                 entries, batch_size, fail, b + 1)

bulk_insert_word_index(index, entries, batch_size, fail) ==
    bulk_insert_word_index_from(index, entries, batch_size, fail, 1)

----------------------------------------------------------------------------
(* database.py: query primitives *)

\* the WHERE clause of a search: `word_index.word = word` (exact) or
\* `word_index.word LIKE word || '%'` (prefix)
Matches(kind, word, w) == IF kind = "prefix" THEN IsPrefix(word, w) ELSE w = word

\* the number of rows of `sentences JOIN word_index ON id = sentence_id`
\* for one sentence id whose word satisfies the WHERE clause
JoinedCount(id, kind, word) ==
    BagCardinality([e \in {x \in DOMAIN word_index : x[2] = id /\ Matches(kind, word, x[1])}
                      |-> word_index[e]])

\* the joined rows, as sentence id -> number of joined rows
JoinedRows(kind, word) ==
    [id \in {r.id : r \in sentences} |-> JoinedCount(id, kind, word)]

RECURSIVE SumOver(_, _)
SumOver(f, S) ==
    IF S = {} THEN 0
    ELSE LET x == CHOOSE y \in S : TRUE IN f[x] + SumOver(f, S \ {x})

\* a query without the LIMIT clause
no_limit(total, limit) == total

\* `.limit(limit)`: how many of `total` rows come back
apply_limit(total, limit) == Min(limit, total)

\* the lists of joined rows (by sentence id) the store may hand back: any
\* `limit` of the joined rows, in any order (the query has no ORDER BY)
Selected(joined, limit) ==
    LET n == apply_limit(SumOver(joined, DOMAIN joined), limit)
    IN  {ids \in [1..n -> DOMAIN joined] :
            \A id \in DOMAIN joined :
                Cardinality({i \in 1..n : ids[i] = id}) <= joined[id]}

RowOf(id) == CHOOSE r \in sentences : r.id = id

\* `[(jp, en) for jp, en in results]`
PairsOf(ids) ==
    [i \in DOMAIN ids |-> <<RowOf(ids[i]).japanese, RowOf(ids[i]).english>>]

\* WHERE word_index.word = word
ExactRows(word) == JoinedRows("exact", word)

\* WHERE word_index.word LIKE word || '%'
PrefixRows(word) == JoinedRows("prefix", word)

\* Database.search_by_word.  fails: session.execute raises; the handler then
\* calls logger.erorr, which Logger does not have, so the AttributeError
\* leaves the method.  ids: the joined rows the store hands back.
search_by_word(word, limit, fails, ids) ==
    IF fails THEN [raised |-> TRUE, out |-> <<>>, ids |-> <<>>]
    ELSE [raised |-> FALSE, out |-> PairsOf(ids), ids |-> ids]

\* Database.search_by_partial_word, with the same handler
search_by_partial_word(word, limit, fails, ids) ==
    IF fails THEN [raised |-> TRUE, out |-> <<>>, ids |-> <<>>]
    ELSE [raised |-> FALSE, out |-> PairsOf(ids), ids |-> ids]

\* (None, None)
NonePair == <<<<"None">>, "None">>

\* a select that lists the columns as (english, japanese)
get_random_sentence_swapped(rows, fails, row) ==
    IF fails THEN [raised |-> FALSE, out |-> NonePair]
    ELSE IF rows # {}
         THEN [raised |-> FALSE, out |-> <<row.english, row.japanese>>]
         ELSE [raised |-> FALSE, out |-> NonePair]

\* Database.get_random_sentence.  row: the row ORDER BY random() LIMIT 1
\* hands back, when the table has one.
get_random_sentence(rows, fails, row) ==
    IF fails THEN [raised |-> FALSE, out |-> NonePair]
    ELSE IF rows # {}
         THEN [raised |-> FALSE, out |-> <<row.japanese, row.english>>]
         ELSE [raised |-> FALSE, out |-> NonePair]

\* Database.get_sentence_count: `count if count else 0`, 0 when the query raises
get_sentence_count(rows, fails) ==
    IF fails THEN 0
    ELSE IF Cardinality(rows) # 0 THEN Cardinality(rows) ELSE 0

----------------------------------------------------------------------------
(* loader.py: load_jesc_to_database *)

\* `start_id = existing_count + 1`
start_id_of(existing_count) == existing_count + 1

\* One run of the loader on the store st with the accepted pairs `input` of
\* the CSV file.
\*   countFails : the count query raises (get_sentence_count returns 0)
\*   answer     : the operator's answer to "continue and add more"
\*   bs, bi     : batch sizes of the sentence and of the index insert
\*   fs, consumed, fi : the failing batches (0: none), see the bulk inserts
\*   raises, orders   : see build_word_index
load_jesc_to_database(st, input, countFails, answer, bs, bi, fs, consumed, raises, orders, fi) ==
    LET existing_count == get_sentence_count(st.sentences, countFails)
        start_id == start_id_of(existing_count)
        ins == bulk_insert_sentences(st.sentences, st.nextId, input, bs, fs, consumed)
        entries == build_word_index(input, start_id, raises, orders)
        idx == bulk_insert_word_index(st.word_index, entries, bi, fi)
        rec == [kind |-> "load", input |-> input, start_id |-> start_id,
                first_id |-> st.nextId, bs |-> bs, bi |-> bi,
                fs |-> 0, fi |-> 0, raises |-> raises, entries |-> <<>>]
    IN  IF existing_count > 0 /\ ~answer
        THEN st @@ [run |-> rec @@ [outcome |-> "cancelled"]]
        ELSE IF input = <<>>
        THEN st @@ [run |-> rec @@ [outcome |-> "no sentences"]]
        ELSE IF ins.raised
        THEN [sentences |-> ins.sentences, word_index |-> st.word_index,
              nextId |-> ins.nextId,
              run |-> [rec EXCEPT !.fs = fs] @@ [outcome |-> "raised in sentences"]]
        ELSE [sentences |-> ins.sentences, word_index |-> idx.word_index,
              nextId |-> ins.nextId,
              run |-> [rec EXCEPT !.entries = entries,
                                  !.fi = IF idx.raised THEN fi ELSE 0]
                      @@ [outcome |-> IF idx.raised THEN "raised in index"
                                      ELSE "loaded"]]

\* the store stays within the bounds of the model
WithinBounds(st) ==
    /\ Cardinality(st.sentences) <= MaxSentences
    /\ st.nextId <= MaxId + 1
    /\ BagCardinality(st.word_index) <= MaxIndexRows

\* no tagger failure on any of n sentences
NoRaise(n) == [k \in 1..n |-> FALSE]

Store == [sentences |-> sentences, word_index |-> word_index, nextId |-> nextId]

LoadRun ==
    /\ Idle
    /\ \E input \in SeqsUpTo(Corpus, MaxInput), countFails \in BOOLEAN,
          bs \in 1..MaxBatchSize :
       \E answer \in (IF get_sentence_count(sentences, countFails) > 0
                      THEN BOOLEAN ELSE {TRUE}),
          fs \in 0..NumBatches(Len(input), bs) :
       \E consumed \in 0..(IF fs = 0 THEN 0 ELSE Len(BatchOf(input, bs, fs))),
          raises \in (IF fs = 0 /\ answer THEN [1..Len(input) -> BOOLEAN]
                      ELSE {NoRaise(Len(input))}),
          bi \in (IF fs = 0 /\ answer THEN 1..MaxBatchSize ELSE {1}) :
       \E orders \in IterOrders(input, raises) :
       \E fi \in (IF fs = 0 /\ answer
                  THEN 0..NumBatches(Len(build_word_index(input, 1, raises, orders)), bi)
                  ELSE {0}) :
          LET st == load_jesc_to_database(Store, input, countFails, answer, bs, bi,
                                          fs, consumed, raises, orders, fi)
          IN  /\ WithinBounds(st)
              /\ sentences' = st.sentences
              /\ word_index' = st.word_index
              /\ nextId' = st.nextId
              /\ run' = st.run
              /\ UNCHANGED <<req, ret, bw, rd, tk>>

----------------------------------------------------------------------------
(* scripts/rebuild_word_index.py *)

\* the word->sentence_id pairs of the fetched rows (id, japanese), in the
\* order the rows came back
RECURSIVE rebuild_entries_from(_, _, _, _)
rebuild_entries_from(rows, raises, orders, k) ==
    IF k > Len(rows) THEN <<>>
    ELSE index_entries(get_lemmas_with_surface(rows[k][2], raises[k]),
                       orders[k], rows[k][1])
         \o rebuild_entries_from(rows, raises, orders, k + 1)

rebuild_entries(rows, raises, orders) == rebuild_entries_from(rows, raises, orders, 1)

\* select(Sentence.id, Sentence.japanese): the rows in any order
FetchedRows(table) ==
    {r \in [1..Cardinality(table) -> {<<s.id, s.japanese>> : s \in table}] :
        \A i, j \in DOMAIN r : i # j => r[i] # r[j]}

\* fetched rows (id, japanese) seen as pairs whose first part is the text
AsPairs(rows) == [k \in DOMAIN rows |-> <<rows[k][2], rows[k][1]>>]

\* One run of rebuild_word_index on the store st.  rows: the rows the select
\* returned; selectFails: the select raises.
rebuild_word_index(st, rows, selectFails, raises, orders, bi, fi) ==
    LET entries == rebuild_entries(rows, raises, orders)
        idx == bulk_insert_word_index(st.word_index, entries, bi, fi)
        rec == [kind |-> "rebuild", rows |-> rows, bi |-> bi, fi |-> 0,
                raises |-> raises, entries |-> <<>>]
    IN  IF selectFails
        THEN st @@ [run |-> rec @@ [outcome |-> "raised in select"]]
        ELSE [sentences |-> st.sentences, word_index |-> idx.word_index,
              nextId |-> st.nextId,
              run |-> [rec EXCEPT !.entries = entries,
                                  !.fi = IF idx.raised THEN fi ELSE 0]
                      @@ [outcome |-> IF idx.raised THEN "raised in index"
                                      ELSE "rebuilt"]]

RebuildRun ==
    /\ Idle
    /\ \E rows \in FetchedRows(sentences), selectFails \in BOOLEAN :
       \E raises \in (IF selectFails THEN {NoRaise(Len(rows))}
                      ELSE [1..Len(rows) -> BOOLEAN]),
          bi \in (IF selectFails THEN {1} ELSE 1..MaxBatchSize) :
       \E orders \in IterOrders(AsPairs(rows), raises) :
       \E fi \in (IF selectFails THEN {0}
                  ELSE 0..NumBatches(Len(rebuild_entries(rows, raises, orders)), bi)) :
          LET st == rebuild_word_index(Store, rows, selectFails, raises, orders, bi, fi)
          IN  /\ WithinBounds(st)
              /\ word_index' = st.word_index
              /\ run' = st.run
              /\ UNCHANGED <<sentences, nextId, req, ret, bw, rd, tk>>

\* the caller takes the result of the last call
Return ==
    /\ ~Idle
    /\ run' = NoRun
    /\ req' = NoReq
    /\ ret' = NoRet
    /\ UNCHANGED <<sentences, word_index, nextId, bw, rd, tk>>

----------------------------------------------------------------------------
(* The store under loader and rebuild runs *)

Init ==
    /\ InitStore
    /\ bw = NoBuild
    /\ rd = NoRead
    /\ tk = NoTok

Next ==
    \/ LoadRun
    \/ RebuildRun
    \/ Return

Spec == Init /\ [][Next]_vars

\* C4: every word_index row's sentence_id is the id of a Sentence row of the
\* store, after any sequence of loader and rebuild runs.
C4_IndexReferencesSentence ==
    \A e \in BagToSet(word_index) : \E r \in sentences : r.id = e[2]

\* the last run was a loader run that got its sentences into the store
SentencesLoaded ==
    run.kind = "load" /\ run.outcome \in {"loaded", "raised in index"}

\* C5: in a loader run the k-th accepted sentence is stored under id
\* start_id + k - 1, and every index row the run built points at the sentence
\* whose Japanese text produced the word.
C5_IdsFollowInputOrder ==
    SentencesLoaded =>
        /\ \A k \in 1..Len(run.input) :
              \E r \in sentences :
                 /\ r.id = run.start_id + k - 1
                 /\ r.japanese = run.input[k][1]
                 /\ r.english = run.input[k][2]
        /\ \A i \in DOMAIN run.entries :
              \E r \in sentences :
                 /\ r.id = run.entries[i][2]
                 /\ run.entries[i][1] \in Range(get_lemmas_with_surface(r.japanese, FALSE))

\* the rows a loader run inserted
RowsOfRun == {r \in sentences : r.id \in run.first_id .. (run.first_id + Len(run.input) - 1)}

\* the pairs rebuild_word_index derives from a set of Sentence rows
RebuildPairs(table) ==
    LET rows == CHOOSE r \in FetchedRows(table) : TRUE
        orders == CHOOSE o \in IterOrders(AsPairs(rows), NoRaise(Len(rows))) : TRUE
    IN  Range(rebuild_entries(rows, NoRaise(Len(rows)), orders))

\* C9: the pairs rebuild_word_index derives from the Sentence rows a loader
\* run stored are the pairs the run's own build_word_index produced (the
\* tagger working in both).
C9_RebuildEqualsBuild ==
    (run.kind = "load" /\ run.outcome = "loaded" /\ run.raises = NoRaise(Len(run.input))) =>
        RebuildPairs(RowsOfRun) = Range(run.entries)

----------------------------------------------------------------------------
(* One loader or rebuild run on a loaded store *)

\* every word set iterated in the order it was filled
FillOrders(sents) ==
    [k \in 1..Len(sents) |->
        [m \in 1..Len(get_lemmas_with_surface(sents[k][1], FALSE)) |-> m]]

\* the store after a loader run that loaded `input` into the empty store
Loaded(input) ==
    load_jesc_to_database(EmptyStore, input, FALSE, TRUE, MaxBatchSize, MaxBatchSize,
                          0, 0, NoRaise(Len(input)), FillOrders(input), 0)

InitRun ==
    /\ \E input \in SeqsUpTo(Corpus, MaxInput) :
          /\ sentences = Loaded(input).sentences
          /\ word_index = Loaded(input).word_index
          /\ nextId = Loaded(input).nextId
    /\ run = NoRun
    /\ req = NoReq
    /\ ret = NoRet
    /\ bw = NoBuild
    /\ rd = NoRead
    /\ tk = NoTok

NextRun ==
    \/ LoadRun
    \/ RebuildRun

SpecRun == InitRun /\ [][NextRun]_vars

\* C8: when batch fs of the sentence insert of a loader run fails, exactly the
\* rows of batches 1..fs-1 are added to the sentences, the run ends with the
\* error and writes no index row; when batch fi of an index insert (of a
\* loader or of a rebuild run) fails, exactly the rows of batches 1..fi-1 are
\* added to the index and the run ends with the error.
C8_BatchFailure ==
    [][ /\ (run'.kind = "load" /\ run'.fs > 0) =>
              /\ run'.outcome = "raised in sentences"
              /\ sentences' = sentences \cup
                    SentenceRows(SubSeq(run'.input, 1, (run'.fs - 1) * run'.bs), nextId)
              /\ word_index' = word_index
        /\ (run'.kind \in {"load", "rebuild"} /\ run'.fi > 0) =>
              /\ run'.outcome = "raised in index"
              /\ word_index' = word_index (+)
                    IndexRows(SubSeq(run'.entries, 1, (run'.fi - 1) * run'.bi))
      ]_vars

\* witness of C8: the second batch of a two-sentence load failed after the
\* first was committed
C8_Witness ==
    /\ run.kind = "load"
    /\ run.fs = 2
    /\ Len(run.input) = 2
    /\ Cardinality(sentences) = 1
    /\ word_index = EmptyBag


----------------------------------------------------------------------------
(* bot.py: the /sentence command *)

\* the bounds of `limit = max(1, min(limit, 10))`
LimitFloor == 1

LimitCap == 10

clamp_limit(limit) == Max(LimitFloor, Min(limit, LimitCap))

\* a tier that runs whatever the tier before it found
no_results_always(results) == TRUE

\* `if not results`
no_results(results) == results = <<>>

\* `list(lemmas)[0]`: the first element a set hands out, which may be any
FirstOf(lemmas) == IF lemmas = <<>> THEN {<<>>} ELSE Range(lemmas)

Lookup(tier, word, limit, got) ==
    [tier |-> tier, word |-> word, limit |-> limit] @@ got

\* the request is over: the embed with the results was sent, or building the
\* "No results found" embed raised (add_field has no parameter `values`)
Respond(word, limit, lemmas, tiers, results) ==
    [word |-> word, limit |-> limit, lemmas |-> lemmas, tiers |-> tiers,
     results |-> results,
     outcome |-> IF results # <<>> THEN "results sent" ELSE "raised in embed"]

\* a lookup raised: the command ends with that error
Raised(word, limit, lemmas, tiers) ==
    [word |-> word, limit |-> limit, lemmas |-> lemmas, tiers |-> tiers,
     results |-> <<>>, outcome |-> "raised in search"]

\* sentence_command.  c holds what the collaborators do in this request:
\*   f1, f2, f3       : the store raises in the exact / prefix / lemma lookup
\*   ids1, ids2, ids3 : the joined rows the store hands back
\*   tagRaises        : the tagger raises in get_lemmas
\*   lemma            : the lemma list(lemmas)[0] picks
sentence_command(word, limit, c) ==
    LET lim == clamp_limit(limit)
        nw == normalize(word)
        t1 == Lookup("exact", nw, lim, search_by_word(nw, lim, c.f1, c.ids1))
        t2 == Lookup("prefix", nw, lim, search_by_partial_word(nw, lim, c.f2, c.ids2))
        lemmas == get_lemmas(nw, c.tagRaises)
        t3 == Lookup("lemma", c.lemma, lim, search_by_word(c.lemma, lim, c.f3, c.ids3))
    IN  IF t1.raised THEN Raised(word, limit, <<>>, <<t1>>)
        ELSE IF ~no_results(t1.out) THEN Respond(word, limit, <<>>, <<t1>>, t1.out)
        ELSE IF t2.raised THEN Raised(word, limit, <<>>, <<t1, t2>>)
        ELSE IF ~no_results(t2.out) THEN Respond(word, limit, <<>>, <<t1, t2>>, t2.out)
        ELSE IF lemmas = <<>> THEN Respond(word, limit, lemmas, <<t1, t2>>, t2.out)
        ELSE IF t3.raised THEN Raised(word, limit, lemmas, <<t1, t2, t3>>)
        ELSE Respond(word, limit, lemmas, <<t1, t2, t3>>, t3.out)

SentenceCommand ==
    /\ Idle
    /\ \E word \in QueryWords, limit \in (-1)..MaxLimit, tagRaises \in BOOLEAN :
       \E f1, f2, f3 \in BOOLEAN,
          ids1 \in Selected(ExactRows(normalize(word)), clamp_limit(limit)),
          ids2 \in Selected(PrefixRows(normalize(word)), clamp_limit(limit)),
          lemma \in FirstOf(get_lemmas(normalize(word), tagRaises)) :
       \E ids3 \in Selected(ExactRows(lemma), clamp_limit(limit)) :
          /\ req' = sentence_command(word, limit,
                       [f1 |-> f1, f2 |-> f2, f3 |-> f3, ids1 |-> ids1, ids2 |-> ids2,
                        ids3 |-> ids3, tagRaises |-> tagRaises, lemma |-> lemma])
          /\ UNCHANGED <<sentences, word_index, nextId, run, ret, bw, rd, tk>>

\* The same user request made once more (same word and limit, the store
\* unchanged), possibly after the bot was started anew; req keeps the first
\* request until the second one is answered.
SentenceCommandAgain ==
    /\ req.outcome # "none"
    /\ \E tagRaises \in BOOLEAN :
       \E f1, f2, f3 \in BOOLEAN,
          ids1 \in Selected(ExactRows(normalize(req.word)), clamp_limit(req.limit)),
          ids2 \in Selected(PrefixRows(normalize(req.word)), clamp_limit(req.limit)),
          lemma \in FirstOf(get_lemmas(normalize(req.word), tagRaises)) :
       \E ids3 \in Selected(ExactRows(lemma), clamp_limit(req.limit)) :
          /\ req' = sentence_command(req.word, req.limit,
                       [f1 |-> f1, f2 |-> f2, f3 |-> f3, ids1 |-> ids1, ids2 |-> ids2,
                        ids3 |-> ids3, tagRaises |-> tagRaises, lemma |-> lemma])
          /\ UNCHANGED <<sentences, word_index, nextId, run, ret, bw, rd, tk>>

----------------------------------------------------------------------------
(* The query primitives called on their own *)

SearchByWord ==
    /\ Idle
    /\ \E word \in QueryWords, limit \in 0..MaxLimit, fails \in BOOLEAN :
       \E ids \in Selected(ExactRows(word), limit) :
          /\ ret' = [op |-> "search_by_word", word |-> word, limit |-> limit,
                     failed |-> fails] @@ search_by_word(word, limit, fails, ids)
          /\ UNCHANGED <<sentences, word_index, nextId, run, req, bw, rd, tk>>

SearchByPartialWord ==
    /\ Idle
    /\ \E word \in QueryWords, limit \in 0..MaxLimit, fails \in BOOLEAN :
       \E ids \in Selected(PrefixRows(word), limit) :
          /\ ret' = [op |-> "search_by_partial_word", word |-> word, limit |-> limit,
                     failed |-> fails] @@ search_by_partial_word(word, limit, fails, ids)
          /\ UNCHANGED <<sentences, word_index, nextId, run, req, bw, rd, tk>>

GetRandomSentence ==
    /\ Idle
    /\ \E fails \in BOOLEAN :
       \E row \in (IF sentences = {} THEN {[id |-> 0]} ELSE sentences) :
          /\ ret' = [op |-> "get_random_sentence", failed |-> fails]
                    @@ get_random_sentence(sentences, fails, row)
          /\ UNCHANGED <<sentences, word_index, nextId, run, req, bw, rd, tk>>

GetSentenceCount ==
    /\ Idle
    /\ \E fails \in BOOLEAN :
          /\ ret' = [op |-> "get_sentence_count", failed |-> fails, raised |-> FALSE,
                     out |-> get_sentence_count(sentences, fails)]
          /\ UNCHANGED <<sentences, word_index, nextId, run, req, bw, rd, tk>>

----------------------------------------------------------------------------
(* Searches of a loaded store *)

InitQuery ==
    /\ \E input \in SeqsUpTo(QueryCorpus, MaxInput) :
          /\ sentences = Loaded(input).sentences
          /\ word_index = Loaded(input).word_index
          /\ nextId = Loaded(input).nextId
    /\ run = NoRun
    /\ req = NoReq
    /\ ret = NoRet
    /\ bw = NoBuild
    /\ rd = NoRead
    /\ tk = NoTok

NextQuery ==
    \/ SentenceCommand
    \/ SentenceCommandAgain
    \/ SearchByWord
    \/ SearchByPartialWord
    \/ GetRandomSentence
    \/ GetSentenceCount
    \/ Return

SpecQuery == InitQuery /\ [][NextQuery]_vars

\* the value a query primitive returns when it absorbs a failure
DefaultOf(op) ==
    CASE op = "get_random_sentence" -> NonePair
      [] op = "get_sentence_count" -> 0
      [] OTHER -> <<>>

\* C2: a query primitive whose query raised does not raise to its caller: it
\* returns [] (the searches), (None, None) (get_random_sentence) or 0
\* (get_sentence_count).
C2_FailureAbsorbed ==
    (ret.op # "none" /\ ret.failed) => (~ret.raised /\ ret.out = DefaultOf(ret.op))

\* the lookups of the last request that returned
Returned(t) == {i \in DOMAIN t : ~t[i].raised}

\* C1: the lookups of a request are issued in the order exact, prefix, lemma;
\* the prefix lookup only after the exact lookup returned [], the lemma lookup
\* only after the prefix lookup returned [] too; an empty tier is followed by
\* the next one (the lemma tier when the query has a lemma); and the result
\* of a request none of whose lookups raised is that of the first tier that
\* returned a non-empty list, [] when there is none.
C1_TierOrder ==
    req.outcome # "none" =>
        LET t == req.tiers
            full == {i \in DOMAIN t : t[i].out # <<>>}
        IN  /\ Len(t) \in 1..3
            /\ \A i \in DOMAIN t : t[i].tier = <<"exact", "prefix", "lemma">>[i]
            /\ \A i \in DOMAIN t : i > 1 => (~t[i - 1].raised /\ t[i - 1].out = <<>>)
            /\ t[1].word = normalize(req.word)
            /\ Len(t) >= 2 => t[2].word = normalize(req.word)
            /\ Len(t) = 3 => t[3].word \in Range(req.lemmas)
            /\ (Len(t) = 1 /\ ~t[1].raised) => t[1].out # <<>>
            /\ (Len(t) = 2 /\ ~t[2].raised) => (t[2].out # <<>> \/ req.lemmas = <<>>)
            /\ Returned(t) = DOMAIN t =>
                  req.results = IF full = {} THEN <<>>
                                ELSE t[CHOOSE i \in full : \A j \in full : i <= j].out

\* witness of C1: a request went through all three tiers and the lemma tier
\* found a sentence
C1_Witness ==
    /\ req.outcome = "results sent"
    /\ Len(req.tiers) = 3
    /\ req.results = req.tiers[3].out
    /\ req.results # <<>>

\* C3 as stated: a request with limit L returns at most L pairs; none for L = 0.
C3_Original ==
    (req.outcome # "none" /\ req.limit >= 0) => Len(req.results) <= req.limit

\* C3 amended: a request with limit L returns at most max(1, min(L, 10))
\* pairs, so at most L for L >= 1 and at most one for L <= 0 (the command
\* raises L to 1); search_by_word and search_by_partial_word themselves
\* return at most `limit` pairs, none for limit 0.
C3_LimitRespected ==
    /\ req.outcome # "none" =>
          /\ Len(req.results) <= Max(1, Min(req.limit, 10))
          /\ req.limit >= 1 => Len(req.results) <= req.limit
          /\ req.limit <= 0 => Len(req.results) <= 1
    /\ ret.op \in {"search_by_word", "search_by_partial_word"} =>
          Len(ret.out) <= ret.limit

\* witness of C3: a request with limit 1 got one pair although two joined rows
\* match its word
C3_Witness ==
    /\ req.outcome = "results sent"
    /\ req.limit = 1
    /\ Len(req.results) = 1
    /\ SumOver(ExactRows(normalize(req.word)), {r.id : r \in sentences}) >= 2

\* the (Japanese, English) pairs of the Sentence rows
StoredPairs == {<<r.japanese, r.english>> : r \in sentences}

\* C11 as stated: get_random_sentence returns (None, None) on an empty store
\* and the pair of a stored row on a non-empty store.
C11_Original ==
    ret.op = "get_random_sentence" =>
        IF sentences = {} THEN ret.out = NonePair ELSE ret.out \in StoredPairs

\* C11 amended: get_random_sentence returns (None, None) when the store is
\* empty or the query raises; when the store is non-empty and the query does
\* not raise it returns the pair of a row that is in the store.
C11_RandomSentence ==
    ret.op = "get_random_sentence" =>
        /\ ~ret.raised
        /\ IF sentences = {} \/ ret.failed
           THEN ret.out = NonePair
           ELSE ret.out \in StoredPairs

\* witness of C11: a working query on a store of two sentences returned the
\* pair of one of them
C11_Witness ==
    /\ ret.op = "get_random_sentence"
    /\ ~ret.failed
    /\ Cardinality(sentences) = 2
    /\ ret.out \in StoredPairs

\* the number of rows a joined query matches
MatchCount(joined) == SumOver(joined, DOMAIN joined)

\* no lookup of the last request raised
NoLookupRaised == \A i \in DOMAIN req.tiers : ~req.tiers[i].raised

\* C12: a request (no lookup raising, the tagger working) whose query has no
\* exact and no prefix match, and one of whose lemmas is indexed for a stored
\* sentence S with no more rows under that lemma than the limit, goes through
\* tier 3 and returns S.
C12_LemmaFallback ==
    (req.outcome # "none" /\ NoLookupRaised) =>
        LET nw == normalize(req.word)
            lemmas == get_lemmas(nw, FALSE)
        IN  \A l \in Range(lemmas), S \in sentences :
               ( /\ req.lemmas = lemmas
                 /\ MatchCount(ExactRows(nw)) = 0
                 /\ MatchCount(PrefixRows(nw)) = 0
                 /\ ExactRows(l)[S.id] > 0
                 /\ MatchCount(ExactRows(l)) <= clamp_limit(req.limit) )
               => ( /\ Len(req.tiers) = 3
                    /\ <<S.japanese, S.english>> \in Range(req.results) )

\* the request got an answer from every lookup it made and from the tagger
Undisturbed(r) ==
    /\ r.outcome # "none"
    /\ \A i \in DOMAIN r.tiers : ~r.tiers[i].raised
    /\ Len(r.tiers) >= 2 => r.lemmas = get_lemmas(normalize(r.word), FALSE)

\* C13: two requests with the same query word and limit against the same
\* store (neither disturbed by a failure) look up the same single lemma in
\* tier 3, a member of get_lemmas(query), and return the same result.
C13_LemmaDeterministic ==
    [][ (Undisturbed(req) /\ Undisturbed(req') /\ req'.word = req.word
            /\ req'.limit = req.limit /\ sentences' = sentences
            /\ word_index' = word_index) =>
           /\ Len(req'.tiers) = Len(req.tiers)
           /\ Len(req.tiers) = 3 =>
                 /\ req'.tiers[3].word = req.tiers[3].word
                 /\ req.tiers[3].word \in Range(get_lemmas(normalize(req.word), FALSE))
           /\ req'.results = req.results
      ]_vars

\* the outcomes in which the command ends with an exception
ErrorOutcomes == {"raised in search", "raised in embed"}

\* C14: a request all of whose tiers came back empty (none raising) ends by
\* sending a response, not in an error.
C14_NoResultsResponse ==
    (req.outcome # "none" /\ NoLookupRaised /\ req.results = <<>>) =>
        req.outcome \notin ErrorOutcomes

\* C17: the result of one exact or one prefix lookup holds each Sentence row
\* at most once.
C17_NoRepeatedSentence ==
    (ret.op \in {"search_by_word", "search_by_partial_word"} /\ ~ret.raised) =>
        \A i, j \in DOMAIN ret.ids : i # j => ret.ids[i] # ret.ids[j]

----------------------------------------------------------------------------
(* read_jesc_file on its own *)

\* field texts of CSV records: empty, blank, plain, with a tab or a newline
\* at an end or inside, of 300 and of 301 characters
FieldTexts ==
    { <<>>, <<" ">>, <<"c">>, <<" ", "c", " ">>, <<"T", "c">>, <<"c", "N">>,
      <<"c", "T", "c">>, <<"c", "N", "c">>, <<"L">>, <<" ", "L", " ">>, <<"L", "c">> }

\* records: too short ones, and ones of three or four fields in which at
\* least one of the two texts is plain
Records ==
    {<<>>, <<<<"c">>>>, <<<<"c">>, <<"c">>>>}
    \cup {<<<<"c">>, f, <<"c">>>> : f \in FieldTexts}
    \cup {<<<<"c">>, <<"c">>, f>> : f \in FieldTexts}
    \cup {<<<<"c">>, <<"c", "c">>, <<"c">>, <<"c">>>>}

InitRead ==
    /\ InitStore
    /\ bw = NoBuild
    /\ \E rows \in SeqsUpTo(Records, MaxRecords), limit \in 0..MaxRecords :
          rd = [phase |-> "call", rows |-> rows, limit |-> limit]
    /\ tk = NoTok

ReadCall ==
    /\ rd.phase = "call"
    /\ \E missing \in BOOLEAN : rd' = read_jesc_file(rd.rows, rd.limit, missing)
    /\ UNCHANGED <<sentences, word_index, nextId, run, req, ret, bw, tk>>

NextRead == ReadCall

SpecRead == InitRead /\ [][NextRead]_vars

\* the record is one C10 says is skipped: fewer than 3 fields, or an English
\* or Japanese text that, trimmed, is empty, holds a newline or a tab, or is
\* longer than 300 characters
Rejected(row) ==
    \/ Len(row) < 3
    \/ \E f \in {2, 3} :
          \/ strip(row[f]) = <<>>
          \/ \E i \in DOMAIN strip(row[f]) : strip(row[f])[i] \in {"N", "T"}
          \/ TextLen(strip(row[f])) > 300

Accepted(row) == ~Rejected(row)

Emitted(rows) == [i \in DOMAIN rows |-> <<strip(rows[i][3]), strip(rows[i][2])>>]

Looked(rows, limit) == IF limit = 0 THEN rows ELSE SubSeq(rows, 1, Min(limit, Len(rows)))

----------------------------------------------------------------------------
(* build_word_index on its own *)

InitBuild ==
    /\ InitStore
    /\ rd = NoRead
    /\ \E sents \in SeqsUpTo(BuildCorpus, MaxInput), start_id \in 1..MaxStartId :
          bw = [phase |-> "call", sentences |-> sents, start_id |-> start_id]
    /\ tk = NoTok

BuildCall ==
    /\ bw.phase = "call"
    /\ \E raises \in [1..Len(bw.sentences) -> BOOLEAN] :
       \E orders \in IterOrders(bw.sentences, raises) :
          bw' = [phase |-> "returned", sentences |-> bw.sentences,
                 start_id |-> bw.start_id, raises |-> raises,
                 out |-> build_word_index(bw.sentences, bw.start_id, raises, orders)]
    /\ UNCHANGED <<sentences, word_index, nextId, run, req, ret, rd, tk>>

NextBuild == BuildCall

SpecBuild == InitBuild /\ [][NextBuild]_vars

\* the ids of an index list
IdsOf(out) == {out[i][2] : i \in DOMAIN out}

NonDecreasingIds(out) == \A i, j \in DOMAIN out : i < j => out[i][2] <= out[j][2]

\* the k-th sentence gives at least one word: it has text and the tagger works
GivesWords(b, k) == b.sentences[k][1] # <<>> /\ ~b.raises[k]

\* C6 as stated: the ids of the output of build_word_index(sentences, K) are
\* exactly K .. K+N-1, in non-decreasing order.
C6_Original ==
    bw.phase = "returned" =>
        /\ IdsOf(bw.out) = bw.start_id .. (bw.start_id + Len(bw.sentences) - 1)
        /\ NonDecreasingIds(bw.out)

\* C6 amended: the ids of the output lie in K .. K+N-1, id K+k-1 occurs exactly
\* when the k-th sentence gives at least one word (non-empty text, no tagger
\* failure), and the ids are in non-decreasing order.
C6_BuildIds ==
    bw.phase = "returned" =>
        /\ IdsOf(bw.out) \subseteq bw.start_id .. (bw.start_id + Len(bw.sentences) - 1)
        /\ \A k \in 1..Len(bw.sentences) :
              (bw.start_id + k - 1) \in IdsOf(bw.out) <=> GivesWords(bw, k)
        /\ NonDecreasingIds(bw.out)

\* witness of C6: a two-sentence call from K = 2 where both sentences give words
C6_Witness ==
    /\ bw.phase = "returned"
    /\ Len(bw.sentences) = 2
    /\ bw.start_id = 2
    /\ IdsOf(bw.out) = {2, 3}

\* C7: the output of one build_word_index call holds no (word, sentence_id)
\* pair twice.
C7_NoDuplicatePairs ==
    bw.phase = "returned" =>
        \A i, j \in DOMAIN bw.out : i # j => bw.out[i] # bw.out[j]

\* witness of C7: a sentence whose word 食べる is both a surface form and a
\* lemma (食べる as surface, and as lemma of itself and of 食べ) was indexed
C7_Witness ==
    /\ bw.phase = "returned"
    /\ \E k \in 1..Len(bw.sentences) :
          /\ bw.sentences[k][1] = Taberu
          /\ ~bw.raises[k]
          /\ Cardinality({i \in DOMAIN bw.out :
                            bw.out[i] = <<Taberu, bw.start_id + k - 1>>}) = 1

----------------------------------------------------------------------------
(* The tokenizer on its own *)

\* the characters of the texts: kana of 食べる / 食べた, a full-width letter and
\* a half-width katakana
TextChars == {"S", "b", "r", "t", "ZA", "hK"}

NotCalled == [called |-> FALSE]

\* the result of one tokenizer call; failed: the tagger raised in it
Called(failed, out) == [called |-> TRUE, failed |-> failed, out |-> out]

InitTok ==
    /\ InitStore
    /\ bw = NoBuild
    /\ rd = NoRead
    /\ \E text \in SeqsUpTo(TextChars, MaxTextChars) :
          tk = [phase |-> "text", text |-> text, tokenize |-> NotCalled,
                get_lemmas |-> NotCalled, get_lemmas_with_surface |-> NotCalled,
                analyze_word |-> NotCalled]

Tokenize ==
    /\ tk.phase = "text"
    /\ ~tk.tokenize.called
    /\ \E raises \in BOOLEAN :
          tk' = [tk EXCEPT !.tokenize = Called(raises, tokenize(tk.text, raises))]
    /\ UNCHANGED <<sentences, word_index, nextId, run, req, ret, bw, rd>>

GetLemmas ==
    /\ tk.phase = "text"
    /\ ~tk.get_lemmas.called
    /\ \E raises \in BOOLEAN :
          tk' = [tk EXCEPT !.get_lemmas = Called(raises, get_lemmas(tk.text, raises))]
    /\ UNCHANGED <<sentences, word_index, nextId, run, req, ret, bw, rd>>

GetLemmasWithSurface ==
    /\ tk.phase = "text"
    /\ ~tk.get_lemmas_with_surface.called
    /\ \E raises \in BOOLEAN :
          tk' = [tk EXCEPT !.get_lemmas_with_surface =
                              Called(raises, get_lemmas_with_surface(tk.text, raises))]
    /\ UNCHANGED <<sentences, word_index, nextId, run, req, ret, bw, rd>>

AnalyzeWord ==
    /\ tk.phase = "text"
    /\ ~tk.analyze_word.called
    /\ \E raises \in BOOLEAN :
          tk' = [tk EXCEPT !.analyze_word = Called(raises, analyze_word(tk.text, raises))]
    /\ UNCHANGED <<sentences, word_index, nextId, run, req, ret, bw, rd>>

NextTok ==
    \/ Tokenize
    \/ GetLemmas
    \/ GetLemmasWithSurface
    \/ AnalyzeWord

SpecTok == InitTok /\ [][NextTok]_vars

\* a call that was made and in which the tagger raised
FailedCall(c) == c.called /\ c.failed

\* the text of tk followed by 食べる, as a sentence list
TextThenTaberu == <<<<tk.text, "a">>, <<Taberu, "eat">>>>

\* C15: a tokenizer call in which the tagger raises returns the empty list
\* (tokenize), the empty set (get_lemmas, get_lemmas_with_surface) or the empty
\* dict (analyze_word); and build_word_index, the tagger raising on a sentence,
\* goes on to index the next sentence.
C15_TaggerFailureAbsorbed ==
    tk.phase = "text" =>
        /\ FailedCall(tk.tokenize) => tk.tokenize.out = <<>>
        /\ FailedCall(tk.get_lemmas) => tk.get_lemmas.out = <<>>
        /\ FailedCall(tk.get_lemmas_with_surface) => tk.get_lemmas_with_surface.out = <<>>
        /\ FailedCall(tk.analyze_word) => tk.analyze_word.out = EmptyDict
        /\ Range(build_word_index(TextThenTaberu, 1, <<TRUE, FALSE>>,
                                  FillOrders(TextThenTaberu))) = {<<Taberu, 2>>}

\* witness of C15: the tagger raised in all four calls on 食べた
C15_Witness ==
    /\ tk.phase = "text"
    /\ tk.text = Tabeta
    /\ FailedCall(tk.tokenize)
    /\ FailedCall(tk.get_lemmas)
    /\ FailedCall(tk.get_lemmas_with_surface)
    /\ FailedCall(tk.analyze_word)
    /\ tk.get_lemmas_with_surface.out = <<>>

\* the three calls C16 compares were made
ThreeCalled ==
    /\ tk.phase = "text"
    /\ tk.tokenize.called
    /\ tk.get_lemmas.called
    /\ tk.get_lemmas_with_surface.called

\* get_lemmas_with_surface(text) holds get_lemmas(text) and the tokens of
\* tokenize(text), as the calls returned them
HoldsLemmasAndTokens ==
    (Range(tk.get_lemmas.out) \cup Range(tk.tokenize.out))
        \subseteq Range(tk.get_lemmas_with_surface.out)

\* C16 as stated: for every text, get_lemmas_with_surface(text) is a superset
\* of get_lemmas(text) united with the tokens of tokenize(text).
C16_Original == ThreeCalled => HoldsLemmasAndTokens

\* C16 amended: when the tagger does not raise in the get_lemmas_with_surface
\* call, its result is a superset of get_lemmas(text) united with the tokens
\* of tokenize(text), and holds the surface form and the resolved lemma of
\* every morpheme, also of morphemes whose lemma is missing or '*'.
C16_SupersetOfLemmasAndTokens ==
    (ThreeCalled /\ ~tk.get_lemmas_with_surface.failed) =>
        /\ HoldsLemmasAndTokens
        /\ \A m \in Range(tagger(normalize(tk.text))) :
              /\ m.surface \in Range(tk.get_lemmas_with_surface.out)
              /\ (m.lemma # <<>> /\ m.lemma # <<"*">>) =>
                    m.lemma \in Range(tk.get_lemmas_with_surface.out)

\* witness of C16: on 食べた, with no failure, the word set holds the surface
\* 食べ beside the lemmas 食べる and た
C16_Witness ==
    /\ ThreeCalled
    /\ tk.text = Tabeta
    /\ ~tk.tokenize.failed /\ ~tk.get_lemmas.failed /\ ~tk.get_lemmas_with_surface.failed
    /\ Tabe \in Range(tk.get_lemmas_with_surface.out)
    /\ Tabe \notin Range(tk.get_lemmas.out)
    /\ Range(tk.get_lemmas.out) = {Taberu, <<"t">>}

====
